---- MODULE Spec2Model ----
(***************************************************************************)
(* Smart-Expense-Tracker (src/app.py): a Flask application over three      *)
(* SQLite tables (users, expenses, user_budget) with flask-login sessions. *)
(*                                                                         *)
(* Tables are sequences of rows in rowid order.  Amounts are integers in   *)
(* cents (the REAL columns hold currency values with two decimals), dates  *)
(* are <<year, month, day>> (the TEXT 'YYYY-MM-DD' of the date column,     *)
(* whose string order is the lexicographic order of the triple).           *)
(* Every handler opens its own connection and commits after each write, so *)
(* a handler is one atomic step per SQL write statement; handlers that     *)
(* SELECT and then INSERT (signup, get_budget) are two steps, and other    *)
(* clients' steps may fall between them.                                   *)
(***************************************************************************)
EXTENDS Integers, Sequences, FiniteSets, TLC

VARIABLES
    users,            \* table users: rows [id, username, email, password_hash]
    expenses,         \* table expenses: rows [id, user_id, amount, category, date, note]
    user_budget,      \* table user_budget: rows [id, user_id, monthly_income, savings_goal]
    expense_seq,      \* sqlite_sequence of expenses (AUTOINCREMENT never reuses an id)
    session,          \* per client: the user id held by the session cookie, 0 if none
    pc,               \* per client: the request in flight between two SQL statements
    req,              \* the request (or direct call) that resp answers
    resp,             \* the response (or return value) of the last completed call
    now,              \* datetime.now(), as a date
    ever_added,       \* history: user id -> has made an add_expense POST
    budget_posted     \* history: user id -> the form of its last set_budget POST, <<>> if none

vars == <<users, expenses, user_budget, expense_seq, session, pc, req, resp, now,
          ever_added, budget_posted>>

db == <<users, expenses, user_budget, expense_seq>>

---------------------------------------------------------------------------
(* Bounds and input domains *)

MaxUsers == 2
MaxExpenses == 2
MaxBudgetRows == 2

Clients == {"c1", "c2"}
UserIds == 1..MaxUsers
ExpenseIds == 1..(MaxExpenses + 1)
Today == <<2024, 6, 15>>

\* signup and login forms
Usernames == {"alice", "bob"}
Emails == {"a@x.io", "b@x.io"}
Passwords == {"1234567", "12345678"}
Salts == {"s1", "s2"}
SignupForms == [username : Usernames, email : Emails, password : Passwords]
AccountForms ==
    {[username |-> "alice", email |-> "a@x.io", password |-> "12345678"],
     [username |-> "bob", email |-> "b@x.io", password |-> "12345678"]}
LoginForms == [username : Usernames, password : Passwords]

\* expense and budget forms (amounts in cents)
Lunch == [amount |-> 500, category |-> "Food", date |-> <<2024, 6, 1>>, note |-> ""]
Flat == [amount |-> 1250, category |-> "Rent", date |-> <<2024, 6, 1>>, note |-> "flat"]
ExpenseForms == {Lunch, Flat}
BudgetForms == {<<600000, 50000>>}

\* expenses tables for the aggregation functions: dates before the forecast
\* window, on its first day, inside it and after today
AggMaxRows == 3
AggForms ==
    {[amount |-> 500, category |-> "Food"], [amount |-> 1251, category |-> "Rent"]}
AggDates == {<<2024, 3, 16>>, <<2024, 3, 17>>, <<2024, 5, 31>>, <<2024, 6, 16>>}

---------------------------------------------------------------------------
(* Program constants *)

MinPasswordLength == 8
DefaultIncome == 500000
DefaultSavingsGoal == 100000
ForecastWindowDays == 90

---------------------------------------------------------------------------
(* Helpers *)

RECURSIVE SumSeq(_)
SumSeq(s) == IF s = <<>> THEN 0 ELSE Head(s) + SumSeq(Tail(s))

\* sum([f[k] for k in DOMAIN f])
RECURSIVE SumOver(_)
SumOver(f) ==
    IF DOMAIN f = {} THEN 0
    ELSE LET k == CHOOSE k \in DOMAIN f : TRUE
         IN  f[k] + SumOver([j \in DOMAIN f \ {k} |-> f[j]])

\* werkzeug.security: a salted digest; the check recomputes it from the
\* stored salt and the candidate password.
Digest(salt, password) == <<"scrypt", salt, password>>
generate_password_hash(password, salt) ==
    [method |-> "scrypt", salt |-> salt, digest |-> Digest(salt, password)]
check_password_hash_any(pwhash, password) == pwhash.digest # <<>>
check_password_hash(pwhash, password) ==
    pwhash.digest = Digest(pwhash.salt, password)

\* load_user: the session's user id resolved against the users table; 0 is
\* the anonymous user.
load_user(user_id) ==
    IF \E i \in DOMAIN users : users[i].id = user_id THEN user_id ELSE 0

current_user(c) == load_user(session[c])

is_authenticated(c) == current_user(c) # 0

\* Responses: what the client receives.  kind is "redirect", "render",
\* "file", "error" or "return" (a direct call's value); to is the endpoint
\* redirected to or the page rendered; user_id and budget are the user and
\* the budget row <<monthly_income, savings_goal>> a budget page shows;
\* forecast is <<>> or <<value>>.
NoResp ==
    [kind |-> "", to |-> "", flash |-> "", user_id |-> 0, budget |-> <<>>,
     forecast |-> <<>>, category_spending |-> {}]

Redirect(to, flash) ==
    [NoResp EXCEPT !.kind = "redirect", !.to = to, !.flash = flash]

Render(page) == [NoResp EXCEPT !.kind = "render", !.to = page]

\* login_required with login_view = 'login'
Unauthorized == Redirect("login", "Please log in to access this page.")

Idle ==
    [op |-> "idle", route |-> "", user_id |-> 0, username |-> "", email |-> "",
     password |-> ""]

---------------------------------------------------------------------------
(* Dates: datetime, timedelta and SQLite's strftime *)

IsLeap(y) == (y % 4 = 0 /\ y % 100 # 0) \/ y % 400 = 0

DaysInMonth(y, m) ==
    IF m = 2 THEN (IF IsLeap(y) THEN 29 ELSE 28)
    ELSE IF m \in {4, 6, 9, 11} THEN 30 ELSE 31

\* the last day of the month before d's
PrevMonthEnd(d) ==
    IF d[2] > 1 THEN <<d[1], d[2] - 1, DaysInMonth(d[1], d[2] - 1)>>
    ELSE <<d[1] - 1, 12, 31>>

\* datetime - timedelta(days = n)
RECURSIVE MinusDays(_, _)
MinusDays(d, n) ==
    IF n < d[3] THEN <<d[1], d[2], d[3] - n>>
    ELSE MinusDays(PrevMonthEnd(d), n - d[3])

\* 'YYYY-MM-DD' >= 'YYYY-MM-DD' as TEXT
DateGE(a, b) ==
    \/ a[1] > b[1]
    \/ a[1] = b[1] /\ a[2] > b[2]
    \/ a[1] = b[1] /\ a[2] = b[2] /\ a[3] >= b[3]

\* strftime('%Y-%m', date)
YearMonth(d) == <<d[1], d[2]>>

---------------------------------------------------------------------------
(* Queries and aggregation *)

SumAmounts(rows) == SumSeq([i \in DOMAIN rows |-> rows[i].amount])

\* SELECT ... FROM expenses WHERE user_id = ?
ExpensesOf(user_id) == SelectSeq(expenses, LAMBDA r : r.user_id = user_id)

\* SELECT * FROM user_budget WHERE user_id = ?   (all rows, in rowid order)
BudgetRowsOf(table, user_id) == SelectSeq(table, LAMBDA r : r.user_id = user_id)

\* .fetchone() of that SELECT, as <<monthly_income, savings_goal>>; <<>> is None
FetchBudget(table, user_id) ==
    LET rows == BudgetRowsOf(table, user_id)
    IN  IF rows = <<>> THEN <<>>
        ELSE <<rows[1].monthly_income, rows[1].savings_goal>>

\* SELECT category, SUM(amount) FROM expenses GROUP BY category
calculate_category_spending_all_users(user_id) ==
    {[category |-> c,
      total |-> SumAmounts(SelectSeq(expenses, LAMBDA r : r.category = c))] :
        c \in {expenses[i].category : i \in DOMAIN expenses}}

\* calculate_category_spending: SELECT category, SUM(amount) ... GROUP BY category
calculate_category_spending(user_id) ==
    LET rows == ExpensesOf(user_id)
    IN  {[category |-> c,
          total |-> SumAmounts(SelectSeq(rows, LAMBDA r : r.category = c))] :
            c \in {rows[i].category : i \in DOMAIN rows}}

\* round(total / n, 2) on cents: the nearest cent; an exact half goes up or
\* down with the binary value of the float quotient.
Round2(total, n) ==
    LET q == total \div n
        r == total % n
    IN  IF 2 * r < n THEN {q} ELSE IF 2 * r > n THEN {q + 1} ELSE {q, q + 1}

\* forecast_next_month: the values the call can return
forecast_next_month(user_id) ==
    LET three_months_ago == MinusDays(now, ForecastWindowDays)
        rows == SelectSeq(expenses,
                    LAMBDA r : r.user_id = user_id /\ DateGE(r.date, three_months_ago))
        months == {YearMonth(rows[i].date) : i \in DOMAIN rows}
        result == {[month |-> m,
                    total |-> SumAmounts(SelectSeq(rows, LAMBDA r : YearMonth(r.date) = m))] :
                      m \in months}
        totals == [m \in months |-> (CHOOSE e \in result : e.month = m).total]
    IN  IF Cardinality(result) = 0 THEN {0}
        ELSE Round2(SumOver(totals), Cardinality(result))

---------------------------------------------------------------------------
(* SQL statements *)

\* users without its UNIQUE constraints
NoUniqueConstraint(username, email) == FALSE

\* the UNIQUE constraints of users.username and users.email
UniqueViolation(username, email) ==
    \E i \in DOMAIN users : users[i].username = username \/ users[i].email = email

\* SELECT * FROM users WHERE username = ? OR email = ?   (.fetchone() is not None)
ExistingUser(username, email) ==
    \E i \in DOMAIN users : users[i].username = username \/ users[i].email = email

\* UPDATE expenses SET ... WHERE id = ?
UpdateExpenseAnyOwner(table, expense_id, user_id, form) ==
    [i \in DOMAIN table |->
        IF table[i].id = expense_id
        THEN [table[i] EXCEPT !.amount = form.amount, !.category = form.category,
                              !.date = form.date, !.note = form.note]
        ELSE table[i]]

\* UPDATE expenses SET ... WHERE id = ? AND user_id = ?
UpdateExpense(table, expense_id, user_id, form) ==
    [i \in DOMAIN table |->
        IF table[i].id = expense_id /\ table[i].user_id = user_id
        THEN [table[i] EXCEPT !.amount = form.amount, !.category = form.category,
                              !.date = form.date, !.note = form.note]
        ELSE table[i]]

\* DELETE FROM expenses WHERE id = ? AND user_id = ?
DeleteExpenseRows(table, expense_id, user_id) ==
    SelectSeq(table, LAMBDA r : ~(r.id = expense_id /\ r.user_id = user_id))

\* UPDATE user_budget SET monthly_income = ?, savings_goal = ?
UpdateBudgetAllUsers(table, user_id, form) ==
    [i \in DOMAIN table |->
        [table[i] EXCEPT !.monthly_income = form[1], !.savings_goal = form[2]]]

\* UPDATE user_budget SET monthly_income = ?, savings_goal = ? WHERE user_id = ?
UpdateBudget(table, user_id, form) ==
    [i \in DOMAIN table |->
        IF table[i].user_id = user_id
        THEN [table[i] EXCEPT !.monthly_income = form[1], !.savings_goal = form[2]]
        ELSE table[i]]

\* INSERT INTO user_budget (user_id, monthly_income, savings_goal) VALUES (?, 5000.0, 1000.0)
InsertDefaultBudget(table, user_id) ==
    Append(table, [id |-> Len(table) + 1, user_id |-> user_id,
                   monthly_income |-> DefaultIncome,
                   savings_goal |-> DefaultSavingsGoal])

---------------------------------------------------------------------------
(* Route handlers.  c is the client (browser session) making the request. *)

\* Requests: who asked for what
NoReq == [client |-> "", endpoint |-> "", method |-> "", expense_id |-> 0]

Req(c, endpoint, method, expense_id) ==
    [client |-> c, endpoint |-> endpoint, method |-> method, expense_id |-> expense_id]

Respond(q, r) == req' = q /\ resp' = r

Start(c, op, route, user_id, username, email, password) ==
    pc' = [pc EXCEPT ![c] = [op |-> op, route |-> route, user_id |-> user_id,
                             username |-> username, email |-> email,
                             password |-> password]]

Finish(c) == pc' = [pc EXCEPT ![c] = Idle]

\* GET /signup
signup_get(c) ==
    /\ pc[c] = Idle
    /\ Respond(Req(c, "signup", "GET", 0), Render("signup"))
    /\ UNCHANGED <<db, session, pc, now, ever_added, budget_posted>>

\* GET /login
login_get(c) ==
    /\ pc[c] = Idle
    /\ Respond(Req(c, "login", "GET", 0), Render("login"))
    /\ UNCHANGED <<db, session, pc, now, ever_added, budget_posted>>

\* len(password) < 7
PasswordTooShortOffByOne(password) == Len(password) < MinPasswordLength - 1

\* len(password) < 8
PasswordTooShort(password) == Len(password) < MinPasswordLength

\* POST /signup up to the existence check
signup_post(c, username, email, password) ==
    /\ pc[c] = Idle
    /\ IF PasswordTooShort(password)
       THEN /\ Respond(Req(c, "signup", "POST", 0),
                       Redirect("signup", "Password must be at least 8 characters long!"))
            /\ UNCHANGED pc
       ELSE IF ExistingUser(username, email)
       THEN /\ Respond(Req(c, "signup", "POST", 0),
                       Redirect("signup", "Username or email already exists!"))
            /\ UNCHANGED pc
       ELSE /\ Start(c, "signup_insert", "signup", 0, username, email, password)
            /\ UNCHANGED <<req, resp>>
    /\ UNCHANGED <<db, session, now, ever_added, budget_posted>>

\* POST /signup from the INSERT on; a UNIQUE violation raises IntegrityError,
\* which nothing handles
signup_insert(c) ==
    /\ pc[c].op = "signup_insert"
    /\ IF UniqueViolation(pc[c].username, pc[c].email)
       THEN /\ Respond(Req(c, "signup", "POST", 0),
                       [NoResp EXCEPT !.kind = "error", !.to = "signup",
                                      !.flash = "IntegrityError"])
            /\ UNCHANGED users
       ELSE /\ Len(users) < MaxUsers
            /\ \E salt \in Salts :
                 users' = Append(users,
                     [id |-> Len(users) + 1, username |-> pc[c].username,
                      email |-> pc[c].email,
                      password_hash |-> generate_password_hash(pc[c].password, salt)])
            /\ Respond(Req(c, "signup", "POST", 0),
                       Redirect("login", "Account created successfully! Please login."))
    /\ Finish(c)
    /\ UNCHANGED <<expenses, user_budget, expense_seq, session, now,
                   ever_added, budget_posted>>

\* POST /login
login_post(c, username, password) ==
    /\ pc[c] = Idle
    /\ LET found == {i \in DOMAIN users : users[i].username = username}
       IN  IF found # {} /\ check_password_hash(
                               users[CHOOSE i \in found : TRUE].password_hash, password)
           THEN /\ session' = [session EXCEPT
                                 ![c] = users[CHOOSE i \in found : TRUE].id]
                /\ Respond(Req(c, "login", "POST", 0),
                           Redirect("dashboard", "Login successful!"))
           ELSE /\ Respond(Req(c, "login", "POST", 0),
                           Redirect("login", "Invalid username or password!"))
                /\ UNCHANGED session
    /\ UNCHANGED <<db, pc, now, ever_added, budget_posted>>

\* GET /logout
logout(c) ==
    /\ pc[c] = Idle
    /\ IF ~is_authenticated(c)
       THEN Respond(Req(c, "logout", "GET", 0), Unauthorized) /\ UNCHANGED session
       ELSE /\ session' = [session EXCEPT ![c] = 0]
            /\ Respond(Req(c, "logout", "GET", 0),
                       Redirect("login", "You have been logged out."))
    /\ UNCHANGED <<db, pc, now, ever_added, budget_posted>>

\* what dashboard() and set_budget() render once get_budget has returned
\* (the charts of the dashboard are read-only queries; the aggregation
\* functions behind them are called directly in SpecAgg)
BudgetPage(route, user_id, budget) ==
    [Render(route) EXCEPT !.user_id = user_id, !.budget = budget]

PendingBudgetInserts == Cardinality({c \in Clients : pc[c].op = "get_budget_insert"})

\* GET / and GET /set_budget up to get_budget's first SELECT
budget_page(c, route) ==
    /\ IF ~is_authenticated(c)
       THEN Respond(Req(c, route, "GET", 0), Unauthorized) /\ UNCHANGED pc
       ELSE LET budget == FetchBudget(user_budget, current_user(c))
            IN  IF budget # <<>>
                THEN /\ Respond(Req(c, route, "GET", 0),
                                BudgetPage(route, current_user(c), budget))
                     /\ UNCHANGED pc
                ELSE /\ Len(user_budget) + PendingBudgetInserts < MaxBudgetRows
                     /\ Start(c, "get_budget_insert", route, current_user(c),
                              "", "", "")
                     /\ UNCHANGED <<req, resp>>
    /\ UNCHANGED <<db, session, now, ever_added, budget_posted>>

\* GET /
dashboard(c) ==
    /\ pc[c] = Idle
    /\ budget_page(c, "dashboard")

\* GET /set_budget
set_budget_get(c) ==
    /\ pc[c] = Idle
    /\ budget_page(c, "set_budget")

\* get_budget from its INSERT on, and the rest of the calling handler
get_budget_insert(c) ==
    /\ pc[c].op = "get_budget_insert"
    /\ user_budget' = InsertDefaultBudget(user_budget, pc[c].user_id)
    /\ Respond(Req(c, pc[c].route, "GET", 0),
               BudgetPage(pc[c].route, pc[c].user_id,
                          FetchBudget(user_budget', pc[c].user_id)))
    /\ Finish(c)
    /\ UNCHANGED <<users, expenses, expense_seq, session, now,
                   ever_added, budget_posted>>

\* POST /set_budget
set_budget_post(c, form) ==
    /\ pc[c] = Idle
    /\ IF ~is_authenticated(c)
       THEN /\ Respond(Req(c, "set_budget", "POST", 0), Unauthorized)
            /\ UNCHANGED <<user_budget, budget_posted>>
       ELSE /\ user_budget' = UpdateBudget(user_budget, current_user(c), form)
            /\ budget_posted' = [budget_posted EXCEPT ![current_user(c)] = form]
            /\ Respond(Req(c, "set_budget", "POST", 0),
                       Redirect("dashboard", "Budget settings updated!"))
    /\ UNCHANGED <<users, expenses, expense_seq, session, pc, now, ever_added>>

\* GET /add
add_expense_get(c) ==
    /\ pc[c] = Idle
    /\ IF ~is_authenticated(c)
       THEN Respond(Req(c, "add_expense", "GET", 0), Unauthorized)
       ELSE Respond(Req(c, "add_expense", "GET", 0), Render("add_expense"))
    /\ UNCHANGED <<db, session, pc, now, ever_added, budget_posted>>

\* POST /add
add_expense_post(c, form) ==
    /\ pc[c] = Idle
    /\ IF ~is_authenticated(c)
       THEN /\ Respond(Req(c, "add_expense", "POST", 0), Unauthorized)
            /\ UNCHANGED <<expenses, expense_seq, ever_added>>
       ELSE /\ expense_seq < MaxExpenses
            /\ expenses' = Append(expenses,
                   [id |-> expense_seq + 1, user_id |-> current_user(c),
                    amount |-> form.amount, category |-> form.category,
                    date |-> form.date, note |-> form.note])
            /\ expense_seq' = expense_seq + 1
            /\ ever_added' = [ever_added EXCEPT ![current_user(c)] = TRUE]
            /\ Respond(Req(c, "add_expense", "POST", 0),
                       Redirect("dashboard", "Expense added successfully!"))
    /\ UNCHANGED <<users, user_budget, session, pc, now, budget_posted>>

\* SELECT * FROM expenses WHERE id = ? AND user_id = ?   (.fetchone() is not None)
OwnExpense(expense_id, user_id) ==
    \E i \in DOMAIN expenses :
        expenses[i].id = expense_id /\ expenses[i].user_id = user_id

\* GET /edit/<expense_id>
edit_expense_get(c, expense_id) ==
    /\ pc[c] = Idle
    /\ IF ~is_authenticated(c)
       THEN Respond(Req(c, "edit_expense", "GET", expense_id), Unauthorized)
       ELSE IF OwnExpense(expense_id, current_user(c))
       THEN Respond(Req(c, "edit_expense", "GET", expense_id), Render("edit_expense"))
       ELSE Respond(Req(c, "edit_expense", "GET", expense_id),
                    Redirect("dashboard", "Expense not found!"))
    /\ UNCHANGED <<db, session, pc, now, ever_added, budget_posted>>

\* POST /edit/<expense_id>
edit_expense_post(c, expense_id, form) ==
    /\ pc[c] = Idle
    /\ IF ~is_authenticated(c)
       THEN /\ Respond(Req(c, "edit_expense", "POST", expense_id), Unauthorized)
            /\ UNCHANGED expenses
       ELSE /\ expenses' = UpdateExpense(expenses, expense_id, current_user(c), form)
            /\ Respond(Req(c, "edit_expense", "POST", expense_id),
                       Redirect("dashboard", "Expense updated successfully!"))
    /\ UNCHANGED <<users, user_budget, expense_seq, session, pc, now,
                   ever_added, budget_posted>>

\* GET /delete/<expense_id>
delete_expense(c, expense_id) ==
    /\ pc[c] = Idle
    /\ IF ~is_authenticated(c)
       THEN /\ Respond(Req(c, "delete_expense", "GET", expense_id), Unauthorized)
            /\ UNCHANGED expenses
       ELSE /\ expenses' = DeleteExpenseRows(expenses, expense_id, current_user(c))
            /\ Respond(Req(c, "delete_expense", "GET", expense_id),
                       Redirect("dashboard", "Expense deleted successfully!"))
    /\ UNCHANGED <<users, user_budget, expense_seq, session, pc, now,
                   ever_added, budget_posted>>

\* GET /export
export_expenses(c) ==
    /\ pc[c] = Idle
    /\ IF ~is_authenticated(c)
       THEN Respond(Req(c, "export_expenses", "GET", 0), Unauthorized)
       ELSE Respond(Req(c, "export_expenses", "GET", 0),
                    [Render("export_expenses") EXCEPT !.kind = "file"])
    /\ UNCHANGED <<db, session, pc, now, ever_added, budget_posted>>

\* forecast_next_month(user_id) and calculate_category_spending(user_id),
\* called on their own
call_forecast_next_month(user_id) ==
    /\ \E v \in forecast_next_month(user_id) :
         Respond([NoReq EXCEPT !.endpoint = "forecast_next_month"],
                 [NoResp EXCEPT !.kind = "return", !.to = "forecast_next_month",
                                !.user_id = user_id, !.forecast = <<v>>])
    /\ UNCHANGED <<db, session, pc, now, ever_added, budget_posted>>

call_calculate_category_spending(user_id) ==
    /\ Respond([NoReq EXCEPT !.endpoint = "calculate_category_spending"],
               [NoResp EXCEPT !.kind = "return", !.to = "calculate_category_spending",
                              !.user_id = user_id,
                              !.category_spending =
                                  calculate_category_spending(user_id)])
    /\ UNCHANGED <<db, session, pc, now, ever_added, budget_posted>>

---------------------------------------------------------------------------
(* The application: any client may send any request at any time *)

Init ==
    /\ users = <<>>
    /\ expenses = <<>>
    /\ user_budget = <<>>
    /\ expense_seq = 0
    /\ session = [c \in Clients |-> 0]
    /\ pc = [c \in Clients |-> Idle]
    /\ req = NoReq
    /\ resp = NoResp
    /\ now = Today
    /\ ever_added = [u \in UserIds |-> FALSE]
    /\ budget_posted = [u \in UserIds |-> <<>>]

\* the whole application: every route, from an empty database
Next ==
    \E c \in Clients :
        \/ signup_get(c)
        \/ login_get(c)
        \/ \E f \in SignupForms : signup_post(c, f.username, f.email, f.password)
        \/ signup_insert(c)
        \/ \E f \in LoginForms : login_post(c, f.username, f.password)
        \/ logout(c)
        \/ dashboard(c)
        \/ set_budget_get(c)
        \/ get_budget_insert(c)
        \/ \E form \in BudgetForms : set_budget_post(c, form)
        \/ add_expense_get(c)
        \/ \E form \in ExpenseForms : add_expense_post(c, form)
        \/ \E id \in ExpenseIds : edit_expense_get(c, id)
        \/ \E id \in ExpenseIds, form \in ExpenseForms : edit_expense_post(c, id, form)
        \/ \E id \in ExpenseIds : delete_expense(c, id)
        \/ export_expenses(c)

Spec == Init /\ [][Next]_vars

\* Account creation: concurrent signup requests with every form
NextSignup ==
    \E c \in Clients :
        \/ signup_get(c)
        \/ \E f \in SignupForms : signup_post(c, f.username, f.email, f.password)
        \/ signup_insert(c)

SpecSignup == Init /\ [][NextSignup]_vars

\* The database once the accounts of AccountForms have signed up
Registered(forms) ==
    [i \in 1..Len(forms) |->
        [id |-> i, username |-> forms[i].username, email |-> forms[i].email,
         password_hash |-> generate_password_hash(forms[i].password, "s1")]]

Alice == [username |-> "alice", email |-> "a@x.io", password |-> "12345678"]
Bob == [username |-> "bob", email |-> "b@x.io", password |-> "12345678"]

InitAccounts ==
    /\ users = Registered(<<Alice, Bob>>)
    /\ expenses = <<>>
    /\ user_budget = <<>>
    /\ expense_seq = 0
    /\ session = [c \in Clients |-> 0]
    /\ pc = [c \in Clients |-> Idle]
    /\ req = NoReq
    /\ resp = NoResp
    /\ now = Today
    /\ ever_added = [u \in UserIds |-> FALSE]
    /\ budget_posted = [u \in UserIds |-> <<>>]

\* Expense management by the two registered users
NextExpenses ==
    \E c \in Clients :
        \/ \E f \in AccountForms : login_post(c, f.username, f.password)
        \/ logout(c)
        \/ \E form \in ExpenseForms : add_expense_post(c, form)
        \/ \E id \in ExpenseIds : edit_expense_get(c, id)
        \/ \E id \in ExpenseIds, form \in ExpenseForms : edit_expense_post(c, id, form)
        \/ \E id \in ExpenseIds : delete_expense(c, id)

SpecExpenses == InitAccounts /\ [][NextExpenses]_vars

\* The database once Alice has signed up
InitAuth ==
    /\ users = Registered(<<Alice>>)
    /\ expenses = <<>>
    /\ user_budget = <<>>
    /\ expense_seq = 0
    /\ session = [c \in Clients |-> 0]
    /\ pc = [c \in Clients |-> Idle]
    /\ req = NoReq
    /\ resp = NoResp
    /\ now = Today
    /\ ever_added = [u \in UserIds |-> FALSE]
    /\ budget_posted = [u \in UserIds |-> <<>>]

\* Budgets of fresh accounts: signup, login, the pages that call get_budget,
\* the budget form and the first expenses
NextBudget ==
    \E c \in Clients :
        \/ signup_post(c, Bob.username, Bob.email, Bob.password)
        \/ signup_insert(c)
        \/ \E f \in AccountForms : login_post(c, f.username, f.password)
        \/ dashboard(c)
        \/ set_budget_get(c)
        \/ get_budget_insert(c)
        \/ \E form \in BudgetForms : set_budget_post(c, form)
        \/ add_expense_post(c, Lunch)

SpecBudget == InitAuth /\ [][NextBudget]_vars

\* Sessions: every route, requested with and without a logged-in user
NextAuth ==
    \E c \in Clients :
        \/ signup_get(c)
        \/ login_get(c)
        \/ \E p \in Passwords : signup_post(c, Alice.username, Bob.email, p)
        \/ \E f \in LoginForms : login_post(c, f.username, f.password)
        \/ logout(c)
        \/ dashboard(c)
        \/ set_budget_get(c)
        \/ get_budget_insert(c)
        \/ \E form \in BudgetForms : set_budget_post(c, form)
        \/ add_expense_get(c)
        \/ add_expense_post(c, Lunch)
        \/ \E id \in ExpenseIds : edit_expense_get(c, id)
        \/ \E id \in ExpenseIds : edit_expense_post(c, id, Flat)
        \/ \E id \in ExpenseIds : delete_expense(c, id)
        \/ export_expenses(c)

SpecAuth == InitAuth /\ [][NextAuth]_vars

\* Aggregation: the two functions over every small expenses table of the
\* two registered users
AggRows == [user_id : 1..2, form : AggForms, date : AggDates]

InitAgg ==
    /\ users = Registered(<<Alice, Bob>>)
    /\ \E n \in 0..AggMaxRows :
         \E f \in [1..n -> AggRows] :
            /\ expenses = [i \in 1..n |->
                             [id |-> i, user_id |-> f[i].user_id,
                              amount |-> f[i].form.amount,
                              category |-> f[i].form.category,
                              date |-> f[i].date, note |-> ""]]
            /\ expense_seq = n
    /\ user_budget = <<>>
    /\ session = [c \in Clients |-> 0]
    /\ pc = [c \in Clients |-> Idle]
    /\ req = NoReq
    /\ resp = NoResp
    /\ now = Today
    /\ ever_added = [u \in UserIds |-> \E i \in DOMAIN expenses : expenses[i].user_id = u]
    /\ budget_posted = [u \in UserIds |-> <<>>]

NextAgg ==
    \E u \in 1..2 :
        \/ call_forecast_next_month(u)
        \/ call_calculate_category_spending(u)

SpecAgg == InitAgg /\ [][NextAgg]_vars

---------------------------------------------------------------------------
(* Properties *)

IsBudgetPageFor(u) ==
    resp.kind = "render" /\ resp.to \in {"dashboard", "set_budget"} /\ resp.user_id = u

\* C1: in every reachable state user_budget holds at most one row for each
\* user_id, also after overlapping get_budget calls for the same user.
C1_OneBudgetRowPerUser ==
    \A u \in UserIds : Len(BudgetRowsOf(user_budget, u)) <= 1

\* the step answers a request of client c
ServedFor(c) == req'.client = c

\* every row of expenses that the user does not own is still there, unchanged
OthersRowsKept(user_id) ==
    /\ \A i \in DOMAIN expenses :
         expenses[i].user_id # user_id =>
            \E j \in DOMAIN expenses' : expenses'[j] = expenses[i]
    /\ \A j \in DOMAIN expenses' :
         expenses'[j].user_id # user_id =>
            \E i \in DOMAIN expenses : expenses[i] = expenses'[j]

\* C2: an edit_expense POST or a delete_expense request in A's session leaves
\* every expense row of every other user present and unchanged, whatever id
\* is requested.  (ServedFor repeats what every handler records of its
\* request; it only spares evaluating the handlers on other steps.)
C2_OtherUsersRowsUntouched ==
    [][\A c \in Clients, id \in ExpenseIds :
          (/\ ServedFor(c) /\ req'.expense_id = id
           /\ \/ \E form \in ExpenseForms : edit_expense_post(c, id, form)
              \/ delete_expense(c, id))
          => OthersRowsKept(current_user(c))]_vars

\* A's edit POST for the id of one of B's rows has been served
C2_Witness ==
    /\ req.endpoint = "edit_expense" /\ req.method = "POST"
    /\ resp.flash = "Expense updated successfully!"
    /\ session[req.client] # 0
    /\ \E i \in DOMAIN expenses :
         /\ expenses[i].id = req.expense_id
         /\ expenses[i].user_id # session[req.client]

\* the password a stored hash was made from
PasswordOf(row) == row.password_hash.digest[3]

\* C3: a signup POST with a password of fewer than 8 characters ends with a
\* redirect to signup and leaves users as it was; no row of users ever holds
\* such a password.
C3_ShortPasswordCreatesNoUser ==
    /\ [](\A i \in DOMAIN users : Len(PasswordOf(users[i])) >= 8)
    /\ [][\A c \in Clients, f \in SignupForms :
            (Len(f.password) < 8 /\ signup_post(c, f.username, f.email, f.password))
            => /\ users' = users
               /\ pc'[c] = Idle
               /\ resp'.kind = "redirect" /\ resp'.to = "signup"]_vars

\* a short-password signup has been refused while accounts exist
C3_Witness ==
    /\ req.endpoint = "signup" /\ req.method = "POST"
    /\ resp = Redirect("signup", "Password must be at least 8 characters long!")
    /\ users # <<>>

\* C4: no two rows of users share a username or an email, and a signup whose
\* username or email is already taken adds no row, also when it passed the
\* existence check before the other signup inserted.
C4_UniqueUsernameAndEmail ==
    /\ [](\A i, j \in DOMAIN users :
            i # j => /\ users[i].username # users[j].username
                     /\ users[i].email # users[j].email)
    /\ [][\A c \in Clients :
            ((\/ signup_insert(c)
              \/ \E f \in SignupForms :
                    signup_post(c, f.username, f.email, f.password))
             /\ users' # users)
            => /\ Len(users') = Len(users) + 1
               /\ \A i \in DOMAIN users :
                    /\ users[i].username # users'[Len(users')].username
                    /\ users[i].email # users'[Len(users')].email]_vars

\* a signup that passed the existence check lost the race and added nothing
C4_Witness ==
    /\ req.endpoint = "signup" /\ req.method = "POST"
    /\ resp.kind = "error"
    /\ Len(users) = 1
    /\ \A c \in Clients : pc[c] = Idle

\* C5: a registered user has no expense rows before its first add_expense
\* POST, and before its first set_budget POST every budget row of the user
\* and every budget a page shows the user is (5000, 1000), whatever other
\* users do.
C5_FreshAccountDefaults ==
    \A i \in DOMAIN users :
        LET u == users[i].id
        IN  /\ ~ever_added[u] =>
                 ~\E j \in DOMAIN expenses : expenses[j].user_id = u
            /\ budget_posted[u] = <<>> =>
                 /\ \A j \in DOMAIN user_budget :
                      user_budget[j].user_id = u =>
                         /\ user_budget[j].monthly_income = 500000
                         /\ user_budget[j].savings_goal = 100000
                 /\ IsBudgetPageFor(u) => resp.budget = <<500000, 100000>>

\* a fresh user is shown its budget after another user has added an expense
\* and changed its own budget
C5_Witness ==
    \E u, v \in UserIds :
        /\ u # v
        /\ \E i \in DOMAIN users : users[i].id = u
        /\ ~ever_added[u] /\ budget_posted[u] = <<>>
        /\ IsBudgetPageFor(u)
        /\ ever_added[v] /\ budget_posted[v] # <<>>
        /\ FetchBudget(user_budget, v) = budget_posted[v]

\* the step serves a request of client c to a route under login_required
\* (the endpoint test repeats what the handler records and selects it)
Protected(c) ==
    /\ ServedFor(c)
    /\ \/ req'.endpoint = "logout" /\ logout(c)
       \/ req'.endpoint = "dashboard" /\ dashboard(c)
       \/ req'.endpoint = "set_budget" /\ set_budget_get(c)
       \/ req'.endpoint = "set_budget" /\ \E form \in BudgetForms : set_budget_post(c, form)
       \/ req'.endpoint = "add_expense" /\ add_expense_get(c)
       \/ req'.endpoint = "add_expense" /\ \E form \in ExpenseForms : add_expense_post(c, form)
       \/ req'.endpoint = "edit_expense" /\ edit_expense_get(c, req'.expense_id)
       \/ req'.endpoint = "edit_expense"
            /\ \E form \in ExpenseForms : edit_expense_post(c, req'.expense_id, form)
       \/ req'.endpoint = "delete_expense" /\ delete_expense(c, req'.expense_id)
       \/ req'.endpoint = "export_expenses" /\ export_expenses(c)

\* C6: a request to a protected route in a session without a logged-in user
\* is redirected to login and changes no table; a session becomes logged in
\* only by a login POST with an existing username and its password, stays
\* logged in until a logout, and is logged out by it.
C6_SessionsAndProtectedRoutes ==
    /\ [](\A c \in Clients : session[c] # 0 => is_authenticated(c))
    /\ [][\A c \in Clients :
            /\ (session[c] = 0 /\ Protected(c))
                 => /\ UNCHANGED <<users, expenses, user_budget, expense_seq>>
                    /\ resp'.kind = "redirect" /\ resp'.to = "login"
                    /\ session'[c] = 0
            /\ (session'[c] # session[c] /\ session'[c] # 0)
                 => \E f \in LoginForms : login_post(c, f.username, f.password)
            /\ \A f \in LoginForms :
                 (session'[c] # session[c] /\ login_post(c, f.username, f.password))
                 => \E i \in DOMAIN users :
                      /\ users[i].username = f.username
                      /\ users[i].password_hash =
                           generate_password_hash(f.password,
                                                  users[i].password_hash.salt)
                      /\ session'[c] = users[i].id
            /\ (session[c] # 0 /\ session'[c] = 0) => logout(c)
            /\ (session[c] # 0 /\ ServedFor(c) /\ logout(c)) => session'[c] = 0]_vars

\* a logged-out client asked to delete an existing expense and was sent to
\* login, while the other client is logged in
C6_Witness ==
    /\ req.endpoint = "delete_expense"
    /\ session[req.client] = 0
    /\ resp = Unauthorized
    /\ \E i \in DOMAIN expenses : expenses[i].id = req.expense_id
    /\ user_budget # <<>>
    /\ \E c \in Clients : session[c] # 0

\* the user's expenses dated within the trailing 3 months (90 days up to today)
TrailingRows(u) ==
    {i \in DOMAIN expenses :
        /\ expenses[i].user_id = u
        /\ DateGE(expenses[i].date, MinusDays(now, 90))
        /\ DateGE(now, expenses[i].date)}

AmountOver(rows) == SumOver([i \in rows |-> expenses[i].amount])

\* v is total / n rounded to the cent
IsRounded(v, total, n) == 2 * (v * n - total) <= n /\ 2 * (total - v * n) <= n

\* C7: forecast_next_month(user) is 0 when the user has no expense dated
\* within the trailing 3 months, and otherwise the sum of those expenses
\* divided by the number of distinct calendar months among them, rounded to
\* 2 decimals.
C7_ForecastOverTrailingWindow ==
    (resp.kind = "return" /\ resp.to = "forecast_next_month") =>
        LET rows == TrailingRows(resp.user_id)
            months == {YearMonth(expenses[i].date) : i \in rows}
        IN  IF rows = {} THEN resp.forecast = <<0>>
            ELSE IsRounded(resp.forecast[1], AmountOver(rows), Cardinality(months))

\* C8: calculate_category_spending(user) has exactly one entry per category
\* among the user's expenses, each total is the sum of the user's amounts in
\* that category, and the totals add up to the sum of all the user's amounts.
C8_CategoryTotals ==
    (resp.kind = "return" /\ resp.to = "calculate_category_spending") =>
        LET own == {i \in DOMAIN expenses : expenses[i].user_id = resp.user_id}
            cats == {expenses[i].category : i \in own}
            result == resp.category_spending
            total == [e \in result |-> e.total]
        IN  /\ {e.category : e \in result} = cats
            /\ Cardinality(result) = Cardinality(cats)
            /\ \A e \in result :
                 e.total = AmountOver({i \in own : expenses[i].category = e.category})
            /\ SumOver(total) = AmountOver(own)

\* the totals of a user with expenses in two categories, while the other
\* user has an expense as well
C8_Witness ==
    /\ resp.kind = "return" /\ resp.to = "calculate_category_spending"
    /\ Cardinality(resp.category_spending) = 2
    /\ Len(ExpensesOf(resp.user_id)) < Len(expenses)

\* C9: an edit_expense request, GET or POST, for an id that is not a row of
\* the current user flashes the missing-expense error, redirects to the
\* dashboard and leaves expenses unchanged.
C9_MissingExpenseReported ==
    [][\A c \in Clients, id \in ExpenseIds :
          (/\ ServedFor(c) /\ req'.expense_id = id
           /\ is_authenticated(c)
           /\ ~OwnExpense(id, current_user(c))
           /\ \/ edit_expense_get(c, id)
              \/ \E form \in ExpenseForms : edit_expense_post(c, id, form))
          => /\ expenses' = expenses
             /\ resp' = Redirect("dashboard", "Expense not found!")]_vars

\* C10: once a set_budget POST of a user has reported success, every budget
\* shown to that user is the posted income and goal, until its next POST.
C10_PostedBudgetIsRead ==
    \A u \in UserIds :
        (budget_posted[u] # <<>> /\ IsBudgetPageFor(u)) => resp.budget = budget_posted[u]

====
